---- MODULE Spec2Model ----
(***************************************************************************)
(* Routing and dispatch of the minima web framework (src/minima.go).       *)
(* The file holds two generations of the framework object: the exported    *)
(* type Minima (lines 22-303) and the earlier type minima (lines 314-393). *)
(* The variable ver says which of the two the instance is.  Router,        *)
(* Routes, Plugins, Config, Response and Request live outside src/ and     *)
(* are modelled from the specification.                                    *)
(***************************************************************************)
EXTENDS Integers, Sequences, FiniteSets, TLC

\* ------------------------------------------------------------------ bounds
MaxRoutes   == 2   \* routes registered directly on the instance
MaxMw       == 2   \* global middleware handlers registered overall
MaxMounts   == 1   \* routers merged by Mount / UseRouter / UseConfig
ConcRoutes  == 1   \* routes registered while dispatches overlap
MaxInFlight == 2   \* dispatches in flight at once
MaxSetup    == 5   \* routes, middleware and routers registered altogether
MaxListens  == 3   \* Listen calls made on the instance

\* --------------------------------------------------------------- universe
Versions == {"Minima", "minima"}
Methods  == {"GET", "POST"}

Lit(s)   == [k |-> "lit",   v |-> s]
Param(s) == [k |-> "param", v |-> s]
Wild(s)  == [k |-> "wild",  v |-> s]

\* registration patterns: /ping, /api/:id, /api/ping, /api/*rest
PatPing    == <<Lit("ping")>>
PatApiId   == <<Lit("api"), Param("id")>>
PatApiPing == <<Lit("api"), Lit("ping")>>
PatApiRest == <<Lit("api"), Wild("rest")>>
Patterns   == {PatPing, PatApiId, PatApiPing, PatApiRest}

\* request paths as slash-separated segments; a trailing "" is a trailing slash
PathPing    == <<"ping">>
PathApiPing == <<"api", "ping">>
PathApiX    == <<"api", "x", "">>
ReqPaths    == {PathPing, PathApiPing, PathApiX}

\* router.notfound before NotFound is called, and the handler NotFound sets
NoHandler == "nil"
NotFoundHandler == "h_notfound"

\* the router handed to Mount / UseRouter / UseConfig: GET /ping and POST /ping
ChildRouters == {"B"}
\* a second router that a Config lists after B: GET /ping and GET /api/:id
ChildRoutes(r) ==
  [m \in Methods |->
     IF r = "B"
       THEN IF m = "GET" THEN <<[pat |-> PatPing, chain |-> <<91>>]>>
                         ELSE <<[pat |-> PatPing, chain |-> <<92>>]>>
       ELSE IF m = "GET" THEN <<[pat |-> PatPing, chain |-> <<93>>],
                                [pat |-> PatApiId, chain |-> <<94>>]>>
                         ELSE <<>>]

Prefixes == {<<"api">>}

\* ------------------------------------------------------------------ state
VARIABLES
  ver,            \* "Minima" (lines 22-303) or "minima" (lines 314-393)
  routes,         \* router.routes: method -> list of [pat, chain]
  notfound,       \* router.notfound
  minmiddleware,  \* Minima.minmiddleware
  rawmiddleware,  \* Minima.rawmiddleware
  plugin,         \* minima.Middleware.plugin
  mounted,        \* the Mount / UseRouter calls made so far
  nreg,           \* number of routes registered directly
  nmw,            \* number of middleware handlers registered
  reqs,           \* the dispatches: slot -> per-request state
  started,        \* Minima.started / minima.started
  server,         \* m.server: the http.Server of the latest assignment
  nlisten,        \* number of Listen calls made
  properties,     \* m.properties
  last            \* the latest lifecycle or property call and how it ended

vars == <<ver, routes, notfound, minmiddleware, rawmiddleware, plugin,
          mounted, nreg, nmw, reqs, started, server, nlisten, properties,
          last>>

\* the fields that only Listen, Shutdown, SetProp and GetProp touch
inst == <<started, server, nlisten, properties, last>>

Slots == 1..MaxInFlight

EmptyMap == [x \in {} |-> <<>>]

\* &m.properties, the one object every response and request is handed
PropsRef == <<"properties", 0>>

Idle == [pc |-> "idle", method |-> "", path |-> <<>>, found |-> FALSE,
         chain |-> <<>>, params |-> EmptyMap, attached |-> EmptyMap,
         cur |-> 0, props |-> <<>>, log |-> <<>>, body |-> <<>>,
         outcome |-> "", seen |-> EmptyMap,
         formerr |-> FALSE]

\* ------------------------------------------------- Route Pattern & Matcher
\* strip the trailing slash
Normalize(path) ==
  IF Len(path) > 0 /\ path[Len(path)] = ""
    THEN SubSeq(path, 1, Len(path) - 1)
    ELSE path

RECURSIVE Walk(_, _, _)
Walk(pat, path, acc) ==
  IF pat = <<>> THEN [ok |-> path = <<>>, params |-> acc]
  ELSE IF Head(pat).k = "wild"
    THEN [ok |-> TRUE, params |-> (Head(pat).v :> path) @@ acc]
  ELSE IF path = <<>> THEN [ok |-> FALSE, params |-> acc]
  ELSE IF Head(pat).k = "lit"
    THEN IF Head(pat).v = Head(path)
           THEN Walk(Tail(pat), Tail(path), acc)
           ELSE [ok |-> FALSE, params |-> acc]
  ELSE Walk(Tail(pat), Tail(path), (Head(pat).v :> <<Head(path)>>) @@ acc)

matchingPath(pat, path) ==
  LET w == Walk(pat, Normalize(path), EmptyMap)
  IN  [ok |-> w.ok, params |-> IF w.ok THEN w.params ELSE EmptyMap]

TableOfFallsBack(method) ==
  IF method \in DOMAIN routes THEN routes[method]
  ELSE IF "GET" \in DOMAIN routes THEN routes["GET"] ELSE <<>>

\* routes[q.Method] (line 79, line 348): a missing key is the empty list
TableOf(method) ==
  IF method \in DOMAIN routes THEN routes[method] ELSE <<>>

Matching(list, path) == {i \in 1..Len(list) : matchingPath(list[i].pat, path).ok}

Min(S) == CHOOSE x \in S : \A y \in S : x <= y
Max(S) == CHOOSE x \in S : \A y \in S : y <= x

\* a scan that resumes behind a position shared by the dispatches
FirstMatchSharedCursor(list, path) ==
  LET from == Cardinality({s \in DOMAIN reqs : reqs[s].cur > 0})
      M    == {i \in Matching(list, path) : i > from}
  IN  IF M = {} THEN 0 ELSE Min(M)

LastMatch(list, path) ==
  IF Matching(list, path) = {} THEN 0 ELSE Max(Matching(list, path))

\* the scan of the method's list that stops at the first structural match
\* (lines 348-350, 364)
FirstMatch(list, path) ==
  IF Matching(list, path) = {} THEN 0 ELSE Min(Matching(list, path))

\* Router.resolve / Routes.Get: handlers, parameters, found
Resolve(method, path) ==
  LET list == TableOf(method)
      i    == FirstMatch(list, path)
  IN  IF i = 0
        THEN [found |-> FALSE, chain |-> <<>>, params |-> EmptyMap]
        ELSE [found |-> TRUE, chain |-> list[i].chain,
              params |-> matchingPath(list[i].pat, path).params]

\* ---------------------------------------------------------- registration
Serving == \E s \in Slots : reqs[s].pc # "idle"

AppendRoute(tbl, method, entry) ==
  IF method \in DOMAIN tbl
    THEN [tbl EXCEPT ![method] = Append(@, entry)]
    ELSE (method :> <<entry>>) @@ tbl

Registered(method, pat) ==
  \E i \in 1..Len(TableOf(method)) : TableOf(method)[i].pat = pat

\* room for k more registrations within MaxSetup
Room(k) == nreg + nmw + Len(mounted) + k <= MaxSetup

\* Router.Get / Router.Post ...: append (pattern, handlers) to the method's list
RouterRegister(method, pat, n) ==
  /\ ~Serving
  /\ ~Registered(method, pat)
  /\ nreg' = nreg + 1
  /\ routes' = AppendRoute(routes, method,
                 [pat |-> pat, chain |-> [i \in 1..n |-> 10 * (nreg + 1) + i]])
  /\ UNCHANGED <<inst, ver, notfound, minmiddleware, rawmiddleware, plugin,
                 mounted, nmw, reqs>>

ChainLensWithNone == IF ver = "Minima" THEN {1} ELSE {0, 1, 3}

\* Minima.Get(path, handler) takes one handler; minima.Get(path, handler...)
\* takes a chain, of at least one handler as registration requires
ChainLens == IF ver = "Minima" THEN {1} ELSE {1, 3}

Get(maxR) ==
  /\ nreg < maxR
  /\ Room(1)
  /\ \E pat \in Patterns, n \in ChainLens : RouterRegister("GET", pat, n)

Post(maxR) ==
  /\ ver = "Minima"
  /\ nreg < maxR
  /\ Room(1)
  /\ \E pat \in {PatPing} : RouterRegister("POST", pat, 1)

NotFound ==
  /\ ver = "Minima"
  /\ ~Serving
  /\ notfound = NoHandler
  /\ notfound' = NotFoundHandler
  /\ UNCHANGED <<inst, ver, routes, minmiddleware, rawmiddleware, plugin,
                 mounted, nreg, nmw, reqs>>

\* prefix segments are literals whatever they look like
PrefixPat(prefix) == [i \in 1..Len(prefix) |-> Lit(prefix[i])]

Rewrite(prefix, list) ==
  [i \in 1..Len(list) |->
     [pat |-> PrefixPat(prefix) \o list[i].pat, chain |-> list[i].chain]]

\* Router.Mount: append the child's rewritten entries per method
MountInto(tbl, prefix, child) ==
  LET keys == DOMAIN tbl \cup {m \in Methods : Len(ChildRoutes(child)[m]) > 0}
  IN  [m \in keys |->
         (IF m \in DOMAIN tbl THEN tbl[m] ELSE <<>>)
           \o Rewrite(prefix, ChildRoutes(child)[m])]

\* Router.UseRouter: the merge at the empty prefix
UseRouterInto(tbl, child) == MountInto(tbl, <<>>, child)

MountNoPrefix(maxM) ==
  /\ ver = "Minima"
  /\ ~Serving
  /\ Len(mounted) < maxM
  /\ Room(1)
  /\ \E prefix \in Prefixes, child \in ChildRouters :
       /\ routes' = MountInto(routes, <<>>, child)
       /\ mounted' = Append(mounted, [prefix |-> prefix, router |-> child])
  /\ UNCHANGED <<inst, ver, notfound, minmiddleware, rawmiddleware, plugin,
                 nreg, nmw, reqs>>

\* Minima.Mount (lines 207-210)
Mount(maxM) ==
  /\ ver = "Minima"
  /\ ~Serving
  /\ Len(mounted) < maxM
  /\ Room(1)
  /\ \E prefix \in Prefixes, child \in ChildRouters :
       /\ routes' = MountInto(routes, prefix, child)
       /\ mounted' = Append(mounted, [prefix |-> prefix, router |-> child])
  /\ UNCHANGED <<inst, ver, notfound, minmiddleware, rawmiddleware, plugin,
                 nreg, nmw, reqs>>

UseRouter(maxM) ==
  /\ ~Serving
  /\ Len(mounted) < maxM
  /\ Room(1)
  /\ \E child \in ChildRouters :
       /\ routes' = UseRouterInto(routes, child)
       /\ mounted' = Append(mounted, [prefix |-> <<>>, router |-> child])
  /\ UNCHANGED <<inst, ver, notfound, minmiddleware, rawmiddleware, plugin,
                 nreg, nmw, reqs>>

\* fresh middleware handlers are numbered in registration order
Fresh(n) == [i \in 1..n |-> nmw + i]

Use(maxW) ==
  /\ ~Serving
  /\ \E n \in 1..(maxW - nmw) :
       /\ Room(n)
       /\ nmw' = nmw + n
       /\ IF ver = "Minima"
            THEN /\ minmiddleware' = minmiddleware \o Fresh(n)
                 /\ UNCHANGED plugin
            ELSE /\ n = 1
                 /\ plugin' = Append(plugin, nmw + 1)
                 /\ UNCHANGED minmiddleware
  /\ UNCHANGED <<inst, ver, routes, notfound, rawmiddleware, mounted, nreg, reqs>>

UseRaw(maxW) ==
  /\ ver = "Minima"
  /\ ~Serving
  /\ \E n \in 1..(maxW - nmw) :
       /\ Room(n)
       /\ nmw' = nmw + n
       /\ rawmiddleware' = rawmiddleware \o Fresh(n)
  /\ UNCHANGED <<inst, ver, routes, notfound, minmiddleware, plugin, mounted,
                 nreg, reqs>>

\* a Config: how many Middleware and HttpHandler entries, and its routers
Configs == {[Middleware |-> 1, HttpHandler |-> 1, Router |-> <<"B">>],
            [Middleware |-> 1, HttpHandler |-> 0, Router |-> <<>>],
            [Middleware |-> 1, HttpHandler |-> 0, Router |-> <<"B">>],
            [Middleware |-> 1, HttpHandler |-> 0, Router |-> <<"B", "C">>]}

RECURSIVE UseRoutersReversed(_, _)
UseRoutersReversed(tbl, rs) ==
  IF rs = <<>> THEN tbl
  ELSE UseRouterInto(UseRoutersReversed(tbl, Tail(rs)), Head(rs))

\* for _, router := range config.Router { m.UseRouter(router) } (lines 220-222)
RECURSIVE UseRouters(_, _)
UseRouters(tbl, rs) ==
  IF rs = <<>> THEN tbl ELSE UseRouters(UseRouterInto(tbl, Head(rs)), Tail(rs))

\* Minima.UseConfig (lines 217-224); minima.UseConfig (lines 387-393) reads
\* config.Middleware and the one router config.Router
UseConfig(maxW, maxM) ==
  /\ ~Serving
  /\ \E c \in Configs :
       /\ nmw + c.Middleware + c.HttpHandler <= maxW
       /\ c.Router # <<>> => Len(mounted) < maxM
       /\ Room(c.Middleware + c.HttpHandler + Len(c.Router))
       /\ nmw' = nmw + c.Middleware + c.HttpHandler
       /\ IF ver = "Minima"
            THEN /\ minmiddleware' = minmiddleware \o Fresh(c.Middleware)
                 /\ rawmiddleware' = rawmiddleware \o
                      [i \in 1..c.HttpHandler |-> nmw + c.Middleware + i]
                 /\ UNCHANGED plugin
            ELSE /\ c.HttpHandler = 0
                 /\ Len(c.Router) = 1
                 /\ plugin' = plugin \o Fresh(c.Middleware)
                 /\ UNCHANGED <<minmiddleware, rawmiddleware>>
       /\ routes' = UseRouters(routes, c.Router)
       /\ mounted' = mounted \o
            [i \in 1..Len(c.Router) |-> [prefix |-> <<>>, router |-> c.Router[i]]]
  /\ UNCHANGED <<inst, ver, notfound, nreg, reqs>>

\* --------------------------------------------------------------- dispatch
Ev(kind, id) == <<kind, id>>

\* the slot a new dispatch takes: the lowest one not in flight
InFlight(s) == reqs[s].pc # "idle"
FreeSlot(s) == ~InFlight(s) /\ \A t \in Slots : t < s => InFlight(t)

StepAfterSkipsHandler(pc) ==
  CASE pc = "matched"    -> "middleware"
    [] pc = "middleware" -> "done"
    [] pc = "handler"    -> "done"

StepAfterSwapped(pc) ==
  CASE pc = "matched"    -> "handler"
    [] pc = "handler"    -> "middleware"
    [] pc = "middleware" -> "done"

\* the order of the calls on the matched path: the global middleware
\* (line 91, line 360), then the route's handler (line 92, line 362)
StepAfter(pc) ==
  CASE pc = "matched"    -> "middleware"
    [] pc = "middleware" -> "handler"
    [] pc = "handler"    -> "done"

Completed(pc) == IF pc = "done" THEN "completed" ELSE ""

DefaultBody == "No matching route found"

NoMatchBoth(base) ==
  IF notfound # NoHandler
    THEN [base EXCEPT !.pc = "notfound", !.props = PropsRef,
                      !.body = <<DefaultBody>>]
    ELSE [base EXCEPT !.pc = "done", !.props = PropsRef,
                      !.body = <<DefaultBody>>, !.outcome = "default"]

\* Minima.ServeHTTP, the else branch (lines 93-101) up to the handler call
NoMatch(base) ==
  IF notfound # NoHandler
    THEN [base EXCEPT !.pc = "notfound", !.props = PropsRef]
    ELSE [base EXCEPT !.pc = "done", !.props = PropsRef,
                      !.body = <<DefaultBody>>, !.outcome = "default"]

\* what both dispatchers know once the route table has been consulted
Matched(method, path) ==
  LET r == Resolve(method, path)
  IN  [Idle EXCEPT !.method = method, !.path = path, !.found = r.found,
                   !.chain = r.chain, !.params = r.params,
                   !.log = <<Ev("resolve", 0)>>]

FormErrorContinues(base) ==
  [base EXCEPT !.formerr = TRUE, !.pc = StepAfter("matched"),
               !.props = PropsRef]

\* r.ParseForm() failed: log and return (lines 82-85, lines 351-354)
FormError(base) ==
  [base EXCEPT !.formerr = TRUE, !.pc = "done", !.outcome = "formerror"]

AttachNone(base) == EmptyMap

\* req.Params = params (line 89)
AttachParams(base) == base.params

\* Minima.ServeHTTP up to the first handler call (lines 79-90, 93-100)
ServeHTTP(method, path, formErr) ==
  LET base == Matched(method, path)
  IN  IF base.found
        THEN IF formErr
               THEN FormError(base)
               ELSE [base EXCEPT !.pc = StepAfter("matched"),
                                 !.props = PropsRef,
                                 !.attached = AttachParams(base)]
        ELSE NoMatch(base)

\* minima.ServeHTTP up to the plugin call (lines 346-359, 369-372)
ServeHTTPOld(method, path, formErr) ==
  LET base == Matched(method, path)
  IN  IF base.found
        THEN IF formErr
               THEN FormError(base)
               ELSE [base EXCEPT !.pc = StepAfter("matched"),
                                 !.props = PropsRef]
        ELSE [base EXCEPT !.pc = "done", !.body = <<DefaultBody>>,
                          !.outcome = "default"]

Dispatch(s) ==
  /\ FreeSlot(s)
  /\ \E method \in Methods, path \in ReqPaths, formErr \in BOOLEAN :
       reqs' = [reqs EXCEPT ![s] =
                  IF ver = "Minima" THEN ServeHTTP(method, path, formErr)
                                    ELSE ServeHTTPOld(method, path, formErr)]
  /\ UNCHANGED <<inst, ver, routes, notfound, minmiddleware, rawmiddleware, plugin,
                 mounted, nreg, nmw>>

Events(kind, ids) == [i \in 1..Len(ids) |-> Ev(kind, ids[i])]

MiddlewareCallsMinFirst(raw, min) ==
  IF Len(raw) = 0 THEN <<>>
  ELSE IF Len(min) = 0 THEN Events("raw", raw)
  ELSE Events("min", min) \o Events("raw", raw)

\* Minima.ServeMiddleware (lines 290-303): the handlers it calls, in order
MiddlewareCalls(raw, min) ==
  IF Len(raw) = 0 THEN <<>>
  ELSE IF Len(min) = 0 THEN Events("raw", raw)
  ELSE Events("raw", raw) \o Events("min", min)

\* Plugins.ServePlugin: every plugin in order
PluginCalls(ps) == Events("min", ps)

\* the calls of line 91 / line 360 on the dispatch in slot s; wrote is whether
\* a middleware handler wrote to the response
RunMiddleware(s) ==
  LET calls == IF ver = "Minima"
                 THEN MiddlewareCalls(rawmiddleware, minmiddleware)
                 ELSE PluginCalls(plugin)
  IN  \E wrote \in BOOLEAN :
        reqs' = [reqs EXCEPT ![s].pc = StepAfter("middleware"),
                   ![s].outcome = Completed(StepAfter("middleware")),
                   ![s].body = IF wrote /\ calls # <<>>
                                 THEN Append(@, "middleware") ELSE @,
                   ![s].log = @ \o calls]

ServeMiddlewareDrains(s) ==
  /\ reqs[s].pc = "middleware"
  /\ RunMiddleware(s)
  /\ rawmiddleware' = <<>>
  /\ plugin' = <<>>
  /\ UNCHANGED <<inst, ver, routes, notfound, minmiddleware, mounted, nreg, nmw>>

\* Minima.ServeMiddleware (lines 290-303) / Middleware.ServePlugin (line 360)
ServeMiddleware(s) ==
  /\ reqs[s].pc = "middleware"
  /\ RunMiddleware(s)
  /\ UNCHANGED <<inst, ver, routes, notfound, minmiddleware, rawmiddleware, plugin,
                 mounted, nreg, nmw>>

\* the parameters on the request when the handler is entered: Minima passes
\* req as it stands; Router.Next(Params, handler, res, req) attaches Params
ParamsAtCall(r) == IF ver = "Minima" THEN r.attached ELSE r.params

\* line 92 f(res, req); lines 356-364 router.Next(Params, Handlers[0], res,
\* req), currentRequest++, break.  c is whether the handler body signals
\* continuation; neither dispatcher reads it.  seen is the parameter set the
\* handler finds on its request.
CallHandler(s) ==
  /\ reqs[s].pc = "handler"
  /\ \E c \in BOOLEAN :
       reqs' = [reqs EXCEPT ![s].pc = StepAfter("handler"),
                  ![s].outcome = Completed(StepAfter("handler")),
                  ![s].attached = ParamsAtCall(reqs[s]),
                  ![s].seen = ParamsAtCall(reqs[s]),
                  ![s].cur = 1,
                  ![s].log = Append(@, Ev(IF c THEN "route+" ELSE "route-",
                                          reqs[s].chain[1]))]
  /\ UNCHANGED <<inst, ver, routes, notfound, minmiddleware, rawmiddleware, plugin,
                 mounted, nreg, nmw>>

\* lines 96-97: m.router.notfound(res, req)
CallNotFound(s) ==
  /\ reqs[s].pc = "notfound"
  /\ reqs' = [reqs EXCEPT ![s].pc = "done",
                ![s].log = Append(@, Ev("notfound", notfound)),
                ![s].outcome = "notfound"]
  /\ UNCHANGED <<inst, ver, routes, notfound, minmiddleware, rawmiddleware, plugin,
                 mounted, nreg, nmw>>

\* ServeHTTP returns (line 102, line 373): the per-request state is dropped
Return(s) ==
  /\ reqs[s].pc = "done"
  /\ reqs' = [reqs EXCEPT ![s] = Idle]
  /\ UNCHANGED <<inst, ver, routes, notfound, minmiddleware, rawmiddleware, plugin,
                 mounted, nreg, nmw>>

\* ------------------------------------------------ lifecycle and properties
Addrs == {":3000", ":4000"}
Keys  == {"k1", "k2"}
Vals  == {"v1", "v2"}

\* m.server before any Listen (a nil *http.Server)
NoServer == [id |-> 0, addr |-> "", state |-> "none"]

\* &http.Server{Addr: addr, Handler: m} made by the id-th Listen call, and
\* what ListenAndServe does with it: it serves, or returns an error at once
NewServer(id, addr, binds) ==
  [id |-> id, addr |-> addr, state |-> IF binds THEN "serving" ELSE "failed"]

\* m.properties as New leaves it (lines 49-55, lines 325-333): the map is
\* never made
NoProps == [made |-> FALSE, kv |-> EmptyMap]

\* what an interface{} read of an absent key gives
NilValue == "<nil>"

NoCall == [op |-> "", arg |-> "", val |-> "", res |-> "", n |-> 0]
Call(op, arg, val, res, n) ==
  [op |-> op, arg |-> arg, val |-> val, res |-> res, n |-> n]

\* Minima.Listen (lines 62-70): panic if started, else assign and serve
ListenNew(addr, binds) ==
  IF started
    THEN /\ last' = Call("Listen", addr, "", "panic", nlisten + 1)
         /\ UNCHANGED <<started, server>>
    ELSE /\ server' = NewServer(nlisten + 1, addr, binds)
         /\ started' = TRUE
         /\ last' = Call("Listen", addr, "", server'.state, nlisten + 1)

\* minima.Listen (lines 335-343): the error made when started is dropped, and
\* the new server is assigned either way
ListenOld(addr, binds) ==
  /\ server' = NewServer(nlisten + 1, addr, binds)
  /\ started' = TRUE
  /\ last' = Call("Listen", addr, "", server'.state, nlisten + 1)

Listen ==
  /\ nlisten < MaxListens
  /\ nlisten' = nlisten + 1
  /\ \E addr \in Addrs, binds \in BOOLEAN :
       IF ver = "Minima" THEN ListenNew(addr, binds) ELSE ListenOld(addr, binds)
  /\ UNCHANGED <<ver, routes, notfound, minmiddleware, rawmiddleware, plugin,
                 mounted, nreg, nmw, reqs, properties>>

\* Minima.Shutdown (lines 241-244): m.server.Shutdown(ctx); on a nil server
\* the call dereferences nil and panics
Shutdown ==
  /\ ver = "Minima"
  /\ IF server = NoServer
       THEN /\ last' = Call("Shutdown", "", "", "panic", nlisten)
            /\ UNCHANGED server
       ELSE /\ server' = [server EXCEPT !.state = "closed"]
            /\ last' = Call("Shutdown", "", "", "ok", nlisten)
  /\ UNCHANGED <<ver, routes, notfound, minmiddleware, rawmiddleware, plugin,
                 mounted, nreg, nmw, reqs, started, nlisten, properties>>

\* m.properties[key] (line 263): a read of a nil or made map
GetPropValue(key) ==
  IF key \in DOMAIN properties.kv THEN properties.kv[key] ELSE NilValue

\* Minima.SetProp (lines 252-255): m.properties[key] = value; an assignment
\* to an entry of a nil map panics
SetProp ==
  /\ ver = "Minima"
  /\ \E key \in Keys, value \in Vals :
       IF properties.made
         THEN /\ properties' = [properties EXCEPT
                   !.kv = [k \in DOMAIN @ \cup {key} |->
                             IF k = key THEN value ELSE @[k]]]
              /\ last' = Call("SetProp", key, value, "ok", nlisten)
         ELSE /\ last' = Call("SetProp", key, value, "panic", nlisten)
              /\ UNCHANGED properties
  /\ UNCHANGED <<ver, routes, notfound, minmiddleware, rawmiddleware, plugin,
                 mounted, nreg, nmw, reqs, started, server, nlisten>>

\* Minima.GetProp (lines 262-264)
GetProp ==
  /\ ver = "Minima"
  /\ \E key \in Keys :
       last' = Call("GetProp", key, GetPropValue(key), "ok", nlisten)
  /\ UNCHANGED <<ver, routes, notfound, minmiddleware, rawmiddleware, plugin,
                 mounted, nreg, nmw, reqs, started, server, nlisten,
                 properties>>

\* ------------------------------------------------------------------ specs
Init ==
  /\ ver \in Versions
  /\ routes = EmptyMap
  /\ notfound = NoHandler
  /\ minmiddleware = <<>>
  /\ rawmiddleware = <<>>
  /\ plugin = <<>>
  /\ mounted = <<>>
  /\ nreg = 0
  /\ nmw = 0
  /\ reqs = [s \in Slots |-> Idle]
  /\ started = FALSE
  /\ server = NoServer
  /\ nlisten = 0
  /\ properties = NoProps
  /\ last = NoCall

\* one dispatch at a time
Next ==
  \/ Get(MaxRoutes)
  \/ Post(MaxRoutes)
  \/ NotFound
  \/ Mount(MaxMounts)
  \/ UseRouter(MaxMounts)
  \/ Use(MaxMw)
  \/ UseRaw(MaxMw)
  \/ UseConfig(MaxMw, MaxMounts)
  \/ Dispatch(1)
  \/ ServeMiddleware(1)
  \/ CallHandler(1)
  \/ CallNotFound(1)
  \/ Return(1)

Spec == Init /\ [][Next]_vars

\* dispatches overlapping
NextConc ==
  \/ Get(ConcRoutes)
  \/ NotFound
  \/ \E s \in Slots : Dispatch(s)
  \/ \E s \in Slots : ServeMiddleware(s)
  \/ \E s \in Slots : CallHandler(s)
  \/ \E s \in Slots : CallNotFound(s)
  \/ \E s \in Slots : Return(s)

SpecConc == Init /\ [][NextConc]_vars

\* the instance's lifecycle and property calls
NextLife ==
  \/ Listen
  \/ Shutdown
  \/ SetProp
  \/ GetProp

SpecLife == Init /\ [][NextLife]_vars

\* ----------------------------------------------------------------- claims
IsMw(e)    == e[1] \in {"raw", "min"}
IsRoute(e) == e[1] \in {"route+", "route-"}
Log(s)     == reqs[s].log
Idx(s)     == 1..Len(Log(s))
Calls(s, h) == Cardinality({i \in Idx(s) : IsMw(Log(s)[i]) /\ Log(s)[i][2] = h})
RouteCalls(s) == {i \in Idx(s) : IsRoute(Log(s)[i])}
Finished(s) == reqs[s].pc = "done"

\* C1: at the end of every dispatch, matched or not, every registered global
\* middleware handler has run.
C1_GlobalMiddlewareAlwaysRuns ==
  \A s \in Slots : Finished(s) => \A h \in 1..nmw : Calls(s, h) >= 1

\* C2: once a matched dispatch is past its global middleware, every handler
\* registered with Use, UseRaw or UseConfig has been invoked exactly once.
C2_EachMiddlewareExactlyOnce ==
  \A s \in Slots :
    (reqs[s].pc \in {"handler", "done"} /\ reqs[s].outcome # "formerror"
       /\ reqs[s].found)
      => \A h \in 1..nmw : Calls(s, h) = 1

\* C3 as written: global middleware handlers are invoked in the order in which
\* they were registered, whichever stack they are in.
C3_RegistrationOrder ==
  \A s \in Slots : \A i, j \in Idx(s) :
    (i < j /\ IsMw(Log(s)[i]) /\ IsMw(Log(s)[j])) => Log(s)[i][2] < Log(s)[j][2]

\* C3 amended: within one stack the handlers are invoked in registration
\* order, and every handler of the raw stack precedes every handler of the
\* Minima-handler stack.
C3_OrderWithinStack ==
  \A s \in Slots : \A i, j \in Idx(s) :
    (i < j /\ IsMw(Log(s)[i]) /\ IsMw(Log(s)[j]))
      => /\ Log(s)[i][1] = Log(s)[j][1] => Log(s)[i][2] < Log(s)[j][2]
         /\ ~(Log(s)[i][1] = "min" /\ Log(s)[j][1] = "raw")

\* a dispatch ran a raw handler registered after a Minima handler it also ran
C3_Witness ==
  \E s \in Slots : \E i, j \in Idx(s) :
    /\ Finished(s) /\ i < j
    /\ Log(s)[i][1] = "raw" /\ Log(s)[j][1] = "min"
    /\ Log(s)[i][2] > Log(s)[j][2]

\* C4 as written: the route table is resolved only after every global
\* middleware handler of the dispatch has run.
C4_MatchAfterMiddleware ==
  \A s \in Slots : \A i \in Idx(s) :
    IsMw(Log(s)[i]) => \E j \in Idx(s) : j > i /\ Log(s)[j][1] = "resolve"

\* C4 amended: a dispatch resolves the route table first and once, then runs
\* the global middleware, then the matched route's handler.
C4_MatchBeforeMiddleware ==
  \A s \in Slots :
    /\ reqs[s].pc # "idle" => Log(s)[1][1] = "resolve"
    /\ \A i \in Idx(s) : i > 1 => Log(s)[i][1] # "resolve"
    /\ \A i, j \in Idx(s) : (IsRoute(Log(s)[i]) /\ IsMw(Log(s)[j])) => j < i
    /\ reqs[s].pc = "middleware" => RouteCalls(s) = {}

\* a dispatch finished having run middleware and the route's handler
C4_Witness ==
  \E s \in Slots :
    /\ Finished(s) /\ RouteCalls(s) # {}
    /\ \E i \in Idx(s) : IsMw(Log(s)[i])

\* C5: a dispatch that finds no route falls back exactly once: the not-found
\* handler alone if one is set, else the fixed body alone; no route handler
\* runs and the dispatch ends normally.
C5_NotFoundFallback ==
  \A s \in Slots :
    (reqs[s].pc # "idle" /\ ~reqs[s].found) =>
      /\ RouteCalls(s) = {}
      /\ reqs[s].pc \in {"notfound", "done"}
      /\ Finished(s) =>
           LET nf == {i \in Idx(s) : Log(s)[i][1] = "notfound"}
           IN  IF notfound # NoHandler
                 THEN /\ Cardinality(nf) = 1
                      /\ reqs[s].body = <<>>
                      /\ reqs[s].outcome = "notfound"
                 ELSE /\ nf = {}
                      /\ reqs[s].body = <<DefaultBody>>
                      /\ reqs[s].outcome = "default"

\* an unmatched dispatch ended in the not-found handler while routes exist
C5_Witness ==
  \E s \in Slots :
    /\ Finished(s) /\ ~reqs[s].found /\ reqs[s].outcome = "notfound"
    /\ nreg > 0

C7_FirstMatchWins ==
  \A s \in Slots :
    reqs[s].pc # "idle" =>
      LET list == TableOf(reqs[s].method)
          M    == Matching(list, reqs[s].path)
      IN  /\ reqs[s].found <=> M # {}
          /\ M # {} =>
               LET first == list[Min(M)].chain
               IN  /\ reqs[s].chain = first
                   /\ \A e \in RouteCalls(s) :
                        \E k \in 1..Len(first) : Log(s)[e][2] = first[k]
          /\ (Finished(s) /\ reqs[s].outcome = "completed")
               => Cardinality(RouteCalls(s)) = 1

\* a dispatch completed on a path that two entries with different chains match
C7_Witness ==
  \E s \in Slots :
    /\ Finished(s) /\ reqs[s].outcome = "completed"
    /\ \E i, j \in Matching(TableOf(reqs[s].method), reqs[s].path) :
         /\ i < j
         /\ TableOf(reqs[s].method)[i].chain # TableOf(reqs[s].method)[j].chain

\* C8: with B mounted under /api, /api/ping runs B's handler for the method
\* unless an entry of A placed before the mount matches, and /ping resolves
\* only through entries that did not come from the mount.
OwnEntry(e)     == \A k \in 1..Len(e.chain) : e.chain[k] < 90
MountedAt(pre)  == \E i \in 1..Len(mounted) : mounted[i].prefix = pre
OnlyMountedAt(pre) ==
  mounted # <<>> /\ \A i \in 1..Len(mounted) : mounted[i].prefix = pre
BChain(method)  == ChildRoutes("B")[method][1].chain

C8_MountPrefix ==
  \A s \in Slots :
    (Finished(s) /\ reqs[s].outcome # "formerror" /\ OnlyMountedAt(<<"api">>)) =>
      LET list == TableOf(reqs[s].method)
          B    == {i \in 1..Len(list) : list[i].chain = BChain(reqs[s].method)}
          own  == {i \in 1..Len(list) : OwnEntry(list[i])}
      IN  /\ B # {}
          /\ reqs[s].path = PathApiPing =>
               /\ reqs[s].found
               /\ IF \E i \in own : /\ \A b \in B : i < b
                                    /\ matchingPath(list[i].pat, PathApiPing).ok
                    THEN \A e \in RouteCalls(s) : Log(s)[e][2] < 90
                    ELSE /\ reqs[s].chain = BChain(reqs[s].method)
                         /\ \A e \in RouteCalls(s) :
                              Log(s)[e][2] = BChain(reqs[s].method)[1]
                         /\ RouteCalls(s) # {}
          /\ (reqs[s].path = PathPing
                /\ ~\E i \in own : matchingPath(list[i].pat, PathPing).ok)
               => /\ ~reqs[s].found
                  /\ reqs[s].outcome \in {"notfound", "default"}

\* /api/ping reached B's handler although A registered a matching route later
C8_Witness ==
  \E s \in Slots :
    /\ Finished(s) /\ OnlyMountedAt(<<"api">>)
    /\ reqs[s].path = PathApiPing
    /\ \E e \in RouteCalls(s) : Log(s)[e][2] = BChain(reqs[s].method)[1]
    /\ \E i \in 1..Len(TableOf(reqs[s].method)) :
         /\ OwnEntry(TableOf(reqs[s].method)[i])
         /\ matchingPath(TableOf(reqs[s].method)[i].pat, PathApiPing).ok

\* C9: a dispatch whose method has no entry in the route table finds nothing
\* and ends in the not-found outcome.
C9_MissingMethodTable ==
  \A s \in Slots :
    (reqs[s].pc # "idle" /\ reqs[s].method \notin DOMAIN routes) =>
      /\ ~reqs[s].found
      /\ reqs[s].chain = <<>>
      /\ reqs[s].params = EmptyMap
      /\ reqs[s].attached = EmptyMap
      /\ reqs[s].pc \in {"notfound", "done"}
      /\ Finished(s) => reqs[s].outcome \in {"notfound", "default"}

\* a dispatch finished for a method without a table while another method has
\* a route matching the same path
C9_Witness ==
  \E s \in Slots :
    /\ Finished(s) /\ reqs[s].method \notin DOMAIN routes
    /\ \E m \in DOMAIN routes : Matching(routes[m], reqs[s].path) # {}

\* C10: no object a dispatch created or was handed is reachable from another
\* dispatch in flight.
Reach(s) ==
  {<<"res", s>>, <<"req", s>>, <<"params", s>>}
    \cup (IF reqs[s].props = <<>> THEN {} ELSE {reqs[s].props})

C10_RequestStateNotShared ==
  \A s, t \in Slots :
    (s # t /\ InFlight(s) /\ InFlight(t)) => Reach(s) \cap Reach(t) = {}

\* C11: a step of a dispatch, whatever its outcome, leaves the route tables,
\* the not-found handler and the global middleware stacks as they were.
C11_DispatchReadOnly ==
  [][(reqs' # reqs) =>
       /\ routes' = routes
       /\ notfound' = notfound
       /\ minmiddleware' = minmiddleware
       /\ rawmiddleware' = rawmiddleware
       /\ plugin' = plugin]_vars

\* a matched dispatch ran middleware and its handler on a populated instance
C11_Witness ==
  \E s \in Slots :
    /\ Finished(s) /\ reqs[s].outcome = "completed"
    /\ \E i \in Idx(s) : IsMw(Log(s)[i])
    /\ routes # EmptyMap
C14_MiddlewareCannotShortCircuit ==
  \A s \in Slots :
    (reqs[s].pc # "idle" /\ reqs[s].found /\ reqs[s].outcome # "formerror") =>
      /\ reqs[s].pc \in {"middleware", "handler", "done"}
      /\ reqs[s].pc \in {"middleware", "handler"} => RouteCalls(s) = {}
      /\ Finished(s) =>
           /\ reqs[s].outcome = "completed"
           /\ RouteCalls(s) = {Len(Log(s))}
           /\ Log(s)[Len(Log(s))][2] = reqs[s].chain[1]

\* the handler ran after middleware that had written to the response
C14_Witness ==
  \E s \in Slots :
    /\ Finished(s) /\ RouteCalls(s) # {}
    /\ reqs[s].body = <<"middleware">>
\* C15: the first handler of the matched chain finds on its request exactly
\* the parameters captured for the matched route, and a dispatch that found
\* no route attaches none.
C15_ParamsAttachedBeforeHandler ==
  \A s \in Slots :
    /\ (Finished(s) /\ reqs[s].outcome = "completed") =>
         LET list == TableOf(reqs[s].method)
             M    == Matching(list, reqs[s].path)
         IN  /\ M # {}
             /\ reqs[s].seen = matchingPath(list[Min(M)].pat, reqs[s].path).params
    /\ (reqs[s].pc # "idle" /\ ~reqs[s].found) =>
         (reqs[s].attached = EmptyMap /\ reqs[s].seen = EmptyMap)

\* a handler was entered with a captured parameter on its request
C15_Witness ==
  \E s \in Slots :
    /\ Finished(s) /\ reqs[s].outcome = "completed"
    /\ reqs[s].seen # EmptyMap
\* C16: a registration of middleware only appends to the stacks, the new
\* handlers following the old ones with a Config's Middleware before its
\* HttpHandler; and the routers of a Config are merged in list order exactly
\* as successive UseRouter calls would merge them, behind the entries already
\* in the table.
IsPrefix(a, b) == Len(a) <= Len(b) /\ SubSeq(b, 1, Len(a)) = a
Added(a, b)    == SubSeq(b, Len(a) + 1, Len(b))

RECURSIVE Successive(_, _)
Successive(tbl, ms) ==
  IF ms = <<>> THEN tbl
  ELSE Successive(MountInto(tbl, <<>>, Head(ms).router), Tail(ms))

C16_UseConfigAppends ==
  [][/\ nmw' > nmw =>
          /\ IsPrefix(minmiddleware, minmiddleware')
          /\ IsPrefix(rawmiddleware, rawmiddleware')
          /\ IsPrefix(plugin, plugin')
          /\ Added(minmiddleware, minmiddleware') \o Added(plugin, plugin')
               \o Added(rawmiddleware, rawmiddleware')
                 = [i \in 1..(nmw' - nmw) |-> nmw + i]
     /\ (nmw' > nmw /\ mounted' # mounted) =>
          /\ IsPrefix(mounted, mounted')
          /\ routes' = Successive(routes, Added(mounted, mounted'))
          /\ \A m \in DOMAIN routes :
               m \in DOMAIN routes' /\ IsPrefix(routes[m], routes'[m])
    ]_vars

\* a Config listing B then C was merged behind an own route and an earlier
\* middleware handler, and /ping then reached B's handler
C16_Witness ==
  \E s \in Slots :
    /\ Len(mounted) = 2 /\ mounted[1].router = "B" /\ mounted[2].router = "C"
    /\ nreg > 0 /\ Len(minmiddleware) = 2
    /\ Finished(s) /\ reqs[s].path = PathPing
    /\ \E e \in RouteCalls(s) : Log(s)[e][2] = 91

\* C17: a dispatch whose form failed to parse had matched a route and has
\* ended as an error: it called no global middleware handler, no route
\* handler and no not-found handler, built no response and wrote nothing; a
\* dispatch that matched no route never has a form-parse failure.
C17_FormErrorEndsDispatch ==
  \A s \in Slots :
    /\ reqs[s].formerr =>
         /\ reqs[s].found
         /\ reqs[s].pc = "done"
         /\ reqs[s].outcome = "formerror"
         /\ Log(s) = <<Ev("resolve", 0)>>
         /\ reqs[s].body = <<>>
         /\ reqs[s].props = <<>>
    /\ (InFlight(s) /\ ~reqs[s].found) => ~reqs[s].formerr

\* a matched dispatch ended on a form error although global middleware was
\* registered that the matched path would have run
C17_Witness ==
  \E s \in Slots :
    /\ reqs[s].formerr /\ Finished(s)
    /\ Len(reqs[s].chain) > 0
    /\ (rawmiddleware # <<>> \/ plugin # <<>>)

\* C18: an instance is started at most once: once Listen has been called the
\* instance is started and stays started, its server is the one the first
\* Listen assigned, and every Listen after the first ended in a panic.
C18_StartedAtMostOnce ==
  /\ nlisten > 0 => (started /\ server.id = 1)
  /\ (last.op = "Listen" /\ last.n > 1) => last.res = "panic"

\* C19: on an instance as New returns it, SetProp succeeds and GetProp of
\* the key then gives the value just set.
C19_PropRoundTrip ==
  last.op = "SetProp" =>
    /\ last.res = "ok"
    /\ GetPropValue(last.arg) = last.val

====
